---- MODULE Spec2Model ----
(***************************************************************************)
(* Model of cleanflight_profiler.go: the frame decoder (parseProfileLog),  *)
(* the sample aggregator (groupAddresses / printRawAddresses) fed through  *)
(* a buffered channel, and the symbol resolver                             *)
(* (translateAddressesToLineStats / parseLineInfo) talking to the          *)
(* addr2line subprocess over its stdin and stdout pipes.                   *)
(*                                                                         *)
(* The specifications share the variables:                                 *)
(*   SpecDecode    parseProfileLog as a function of the byte stream        *)
(*   Spec          decoder goroutine, channel and consumer, interleaved    *)
(*   FairSpec      Spec with both goroutines scheduled fairly              *)
(*   SpecResolve   request writer, subprocess and reply consumer; the      *)
(*                 subprocess may break the protocol or die                *)
(*   ProtocolSpec  the resolver with a subprocess that keeps to the        *)
(*                 protocol                                                *)
(*   SpecMain      main from the call of translateAddressesToLineStats to  *)
(*                 the end of the report                                   *)
(*   ProtocolMain  SpecMain with a subprocess that keeps to the protocol   *)
(*   SpecReport    the report of main on the statistics of a resolution    *)
(***************************************************************************)
EXTENDS Integers, Sequences, FiniteSets, TLC

VARIABLES
    log,        \* the bytes of the profile log (io.Reader contents)
    frames,     \* SpecDecode: the frames the log was built from (addresses as 4 bytes)
    gaps,       \* SpecDecode: the noise bytes inserted after frame i (i < number of frames)
    dec,        \* parseProfileLog's locals: label, pos, lastEntry, c, err
    queue,      \* contents of parsedDataChan
    cap,        \* capacity of parsedDataChan
    sent,       \* every value parseProfileLog has sent on the channel, in order
    raw,        \* options.raw
    cons,       \* the consumer's locals: label, addresses, totalObservations, printed
    addressCounts,  \* the map handed to translateAddressesToLineStats
    pending,    \* the addresses the range loop has not written yet
    requests,   \* the addresses the main flow has called io.WriteString for, in order
    wr,         \* where the main flow of translateAddressesToLineStats stands
    pipeIn,     \* the subprocess's stdin pipe: buf, cap, closed
    pipeOut,    \* the subprocess's stdout pipe: buf, cap, closed, readerGone
    sym,        \* the subprocess: label, out (lines still to write), exiting
    par,        \* parseLineInfo's locals: label, address, addressCount, functionName
    stats,      \* the ProfileStats being filled
    fault,      \* how the subprocess broke the protocol, "none" while it has not
    report      \* the report of main: label, topN, out (what was printed)

decodeVars == <<log, frames, gaps, dec, queue, cap, sent, raw, cons>>

resolveVars == <<addressCounts, pending, requests, wr, pipeIn, pipeOut, sym, par, stats, fault>>

vars == <<decodeVars, resolveVars, report>>

----------------------------------------------------------------------------
(* Bounds of the model *)

\* longest byte stream drawn exhaustively in SpecDecode
MaxLen == 11
\* most frames in a stream built from frames and noise (SpecDecode)
MaxFrames == 3
\* most noise bytes inserted into one gap between two frames
MaxNoise == 1
\* most chunks in a log of the interleaved pipeline (Spec)
MaxChunks == 4
\* largest capacity tried for parsedDataChan (the program uses 50)
MaxChanCap == 2
\* number of addresses of the resolver's address pool
MaxAddrs == 3
\* the larger of the two counts an address can have
MaxCount == 3
\* largest capacity, in lines, tried for the stdin and stdout pipes
MaxPipeCap == 2
\* largest number of entries asked of a section, besides main's maxResults
MaxTopN == 2

----------------------------------------------------------------------------
(* Program constants *)

\* '>' , the frame start character
Marker == 62

\* a nil *LogEntry: the completion signal on the channel
Nil == <<>>

\* &LogEntry{pc: pc}
LogEntry(pc) == <<pc>>

\* var maxResults int = 50: the number of entries main asks of each section
maxResults == 50

----------------------------------------------------------------------------
(* parseProfileLog, one loop iteration at a time *)

\* reader.ReadByte(): the next byte, or an error at the end of the stream
ReadByte(s, pos) ==
    IF pos < Len(s)
    THEN [c |-> s[pos + 1], err |-> FALSE, pos |-> pos + 1]
    ELSE [c |-> 0, err |-> TRUE, pos |-> pos]

\* the four bytes read most significant byte first
BigEndian(b) ==
    16777216 * b[1] + 65536 * b[2] + 256 * b[3] + b[4]

\* binary.LittleEndian.Uint32 of four bytes
LittleEndian(b) ==
    b[1] + 256 * b[2] + 65536 * b[3] + 16777216 * b[4]

\* binary.Read with the error of a short read ignored
BinaryReadErrIgnored(s, pos) ==
    IF pos + 4 <= Len(s)
    THEN [pc |-> LittleEndian(SubSeq(s, pos + 1, pos + 4)), err |-> FALSE, pos |-> pos + 4]
    ELSE [pc |-> 0, err |-> FALSE, pos |-> Len(s)]

\* binary.Read(reader, binary.LittleEndian, &lastEntry.pc): io.ReadFull of 4
\* bytes; on a short read the rest of the stream is consumed, pc is left at
\* its zero value and an error is returned
BinaryRead(s, pos) ==
    IF pos + 4 <= Len(s)
    THEN [pc |-> LittleEndian(SubSeq(s, pos + 1, pos + 4)), err |-> FALSE, pos |-> pos + 4]
    ELSE [pc |-> 0, err |-> TRUE, pos |-> Len(s)]

\* the check without the end of the file: c == '>'
FrameEndsAtMarkerOnly(r) ==
    ~r.err /\ r.c = Marker

\* no check at all: every frame read is accepted
FrameEndsAlways(r) ==
    TRUE

\* err != nil || c == '>' : the last frame ends properly
FrameEnds(r) ==
    r.err \/ r.c = Marker

\* the decoder before its first iteration
DecoderStart ==
    [label |-> "loop", pos |-> 0, lastEntry |-> Nil, c |-> 0, err |-> FALSE]

\* lines 79-98 with the short read leaving the function instead of the loop
FindFrameReturnsOnShortRead(s, d) ==
    LET d0 == [d EXCEPT !.lastEntry = Nil] IN
    IF d0.err THEN [d0 EXCEPT !.label = "signal"]
    ELSE IF d0.c # Marker THEN [d0 EXCEPT !.label = "loop"]
    ELSE LET r == BinaryRead(s, d0.pos) IN
         [d0 EXCEPT !.lastEntry = LogEntry(r.pc),
                    !.pos = r.pos,
                    !.label = IF r.err THEN "done" ELSE "loop"]

\* lines 79-98: lastEntry = nil, then look for a frame start character and
\* read the frame behind it
FindFrame(s, d) ==
    LET d0 == [d EXCEPT !.lastEntry = Nil] IN
    IF d0.err THEN [d0 EXCEPT !.label = "signal"]
    ELSE IF d0.c # Marker THEN [d0 EXCEPT !.label = "loop"]
    ELSE LET r == BinaryRead(s, d0.pos) IN
         [d0 EXCEPT !.lastEntry = LogEntry(r.pc),
                    !.pos = r.pos,
                    !.label = IF r.err THEN "signal" ELSE "loop"]

\* lines 70-77: read a byte; a pending frame that ends properly goes to the
\* send, any other pending frame is dropped
LoopHead(s, d) ==
    LET r == ReadByte(s, d.pos)
        d1 == [d EXCEPT !.c = r.c, !.err = r.err, !.pos = r.pos]
    IN  IF d.lastEntry # Nil
        THEN IF FrameEnds(r)
             THEN [d1 EXCEPT !.label = "emit"]
             ELSE FindFrame(s, d1)
        ELSE FindFrame(s, d1)

\* the values parseProfileLog sends on output when no send ever blocks:
\* the accepted entries, then nil
RECURSIVE RunDecoder(_, _, _)
RunDecoder(s, d, out) ==
    IF d.label = "loop" THEN RunDecoder(s, LoopHead(s, d), out)
    ELSE IF d.label = "emit" THEN RunDecoder(s, FindFrame(s, d), Append(out, d.lastEntry))
    ELSE Append(out, Nil)

ParseProfileLog(s) == RunDecoder(s, DecoderStart, <<>>)

\* the decoder's locals when it has sent everything
RECURSIVE RunDecoderState(_, _)
RunDecoderState(s, d) ==
    IF d.label = "loop" THEN RunDecoderState(s, LoopHead(s, d))
    ELSE IF d.label = "emit" THEN RunDecoderState(s, FindFrame(s, d))
    ELSE [d EXCEPT !.label = "done"]

----------------------------------------------------------------------------
(* Inputs *)

\* all sequences over S of length at most n
RECURSIVE SeqsUpTo(_, _)
SeqsUpTo(S, n) ==
    IF n = 0 THEN {<<>>}
    ELSE LET shorter == SeqsUpTo(S, n - 1) IN
         shorter \cup {Append(t, x) : t \in shorter, x \in S}

\* byte values of the exhaustive streams: the marker and one other byte
Bytes == {1, Marker}

\* the four address bytes of the frames of a built stream
FrameAddrs == {<<1, 0, 0, 0>>, <<2, 0, 0, 0>>, <<Marker, 1, 0, Marker>>}

\* inserted noise: any byte but the marker
NoiseBytes == {0, 255}

\* a frame on the wire
Frame(a) == <<Marker>> \o a

\* frame 1, noise after it, frame 2, noise after it, ..., the last frame
RECURSIVE BuildLog(_, _, _)
BuildLog(fs, gs, i) ==
    IF i > Len(fs) THEN <<>>
    ELSE Frame(fs[i]) \o (IF i < Len(fs) THEN gs[i] ELSE <<>>) \o BuildLog(fs, gs, i + 1)

\* the consumer before it has received anything
ConsumerStart ==
    [label |-> "idle", addresses |-> <<>>, totalObservations |-> 0, printed |-> <<>>]

----------------------------------------------------------------------------
(* Text: a line is a sequence of one-character strings *)

HexDigits == <<"0", "1", "2", "3", "4", "5", "6", "7", "8", "9", "a", "b", "c", "d", "e", "f">>

DecDigits == SubSeq(HexDigits, 1, 10)

\* the value of digit ch in the digit alphabet ds, -1 when it is none
DigitValue(ds, ch) ==
    IF \E i \in 1..Len(ds) : ds[i] = ch
    THEN (CHOOSE i \in 1..Len(ds) : ds[i] = ch) - 1
    ELSE -1

\* fmt's %x of a non-negative number
RECURSIVE Hex(_)
Hex(n) ==
    IF n < 16 THEN <<HexDigits[n + 1]>>
    ELSE Hex(n \div 16) \o <<HexDigits[(n % 16) + 1]>>

\* zero padding to width w
RECURSIVE PadZero(_, _)
PadZero(ds, w) ==
    IF Len(ds) >= w THEN ds ELSE PadZero(<<"0">> \o ds, w)

\* fmt.Sprintf("0x%x\n", address), without the newline that ends the line
FormatRequest(address) == <<"0", "x">> \o Hex(address)

\* the digits without their leading zeros
RECURSIVE StripZeros(_)
StripZeros(ds) ==
    IF Len(ds) > 1 /\ ds[1] = "0" THEN StripZeros(Tail(ds)) ELSE ds

\* the value of digits in the given base
RECURSIVE DigitsValue(_, _, _)
DigitsValue(ds, digits, acc) ==
    IF digits = <<>> THEN acc
    ELSE DigitsValue(ds, Tail(digits), acc * Len(ds) + DigitValue(ds, Head(digits)))

\* most digits a 32-bit value has in a base given by its digit alphabet
MaxDigits(ds) == IF Len(ds) = 16 THEN 8 ELSE IF Len(ds) = 10 THEN 9 ELSE 10

\* strconv.ParseUint(digits, base, 32) for digits without a prefix: an
\* error on no digit, a foreign character or a value out of range.  Values
\* of 2^31 and more do not occur in the model.
ParseDigits(ds, digits) ==
    IF /\ digits # <<>>
       /\ \A i \in 1..Len(digits) : DigitValue(ds, digits[i]) >= 0
       /\ Len(StripZeros(digits)) <= MaxDigits(ds)
    THEN [ok |-> TRUE, value |-> DigitsValue(ds, StripZeros(digits), 0)]
    ELSE [ok |-> FALSE, value |-> 0]

\* strconv.ParseUint(line, 0, 32): the base is taken from the prefix, 0x
\* for hexadecimal, 0 for octal, decimal otherwise
ParseUintBase0(line) ==
    IF Len(line) >= 2 /\ line[1] = "0" /\ line[2] = "x"
    THEN ParseDigits(HexDigits, SubSeq(line, 3, Len(line)))
    ELSE IF Len(line) >= 2 /\ line[1] = "0"
    THEN ParseDigits(SubSeq(HexDigits, 1, 8), SubSeq(line, 2, Len(line)))
    ELSE ParseDigits(DecDigits, line)

\* strconv.ParseUint(text, 10, 32)
ParseUintBase10(text) == ParseDigits(DecDigits, text)

\* index of the last ':' of the line, 0 when there is none
LastColon(line) ==
    LET at == {i \in 1..Len(line) : line[i] = ":"} IN
    IF at = {} THEN 0 ELSE CHOOSE i \in at : \A j \in at : j <= i

\* filenameLineSplit without the alternative of question marks: "^(.+):(\d+)$"
FilenameLineSplitDigitsOnly(line) ==
    LET k == LastColon(line)
        tail == SubSeq(line, k + 1, Len(line))
    IN  IF /\ k > 1
           /\ tail # <<>>
           /\ \A i \in 1..Len(tail) : DigitValue(DecDigits, tail[i]) >= 0
        THEN [ok |-> TRUE, filename |-> SubSeq(line, 1, k - 1), lineText |-> tail]
        ELSE [ok |-> FALSE, filename |-> <<>>, lineText |-> <<>>]

\* filenameLineSplit "^(.+):(\d+|\?+)$" : the greedy first group ends at
\* the last colon; what follows is digits only or question marks only
FilenameLineSplit(line) ==
    LET k == LastColon(line)
        tail == SubSeq(line, k + 1, Len(line))
    IN  IF /\ k > 1
           /\ tail # <<>>
           /\ \/ \A i \in 1..Len(tail) : DigitValue(DecDigits, tail[i]) >= 0
              \/ \A i \in 1..Len(tail) : tail[i] = "?"
        THEN [ok |-> TRUE, filename |-> SubSeq(line, 1, k - 1), lineText |-> tail]
        ELSE [ok |-> FALSE, filename |-> <<>>, lineText |-> <<>>]

\* pathPrefixRemove "^.*/\./" replaced by "": everything up to and including
\* the last "/./" is cut off
PathPrefixRemove(name) ==
    LET at == {i \in 1..(Len(name) - 2) :
                  name[i] = "/" /\ name[i + 1] = "." /\ name[i + 2] = "/"}
    IN  IF at = {} THEN name
        ELSE LET k == CHOOSE i \in at : \A j \in at : j <= i IN
             SubSeq(name, k + 3, Len(name))

----------------------------------------------------------------------------
(* Maps: a Go map is a function on its key set; a missing key reads as the *)
(* zero value                                                              *)

EmptyMap == <<>>

Get(f, k, zero) == IF k \in DOMAIN f THEN f[k] ELSE zero

Put(f, k, v) == [x \in (DOMAIN f) \cup {k} |-> IF x = k THEN v ELSE f[x]]

\* minU32 that returns its second argument
SecondU32(a, b) == b

\* a < b ? a : b
MinU32(a, b) == IF a < b THEN a ELSE b

----------------------------------------------------------------------------
(* The addr2line subprocess: --addresses --functions, requests on stdin,   *)
(* three lines per request on stdout                                       *)

\* the addresses of the model are 0 .. MaxAddrs-1
AddrPool == 0..(MaxAddrs - 1)

\* the function and the file:line of an address in the executable's debug
\* information; the line of address 2 is not known
DebugInfo(a) ==
    IF a \in {0, 1}
    THEN [function |-> <<"f">>, fileLine |-> <<"x", "/", ".", "/", "a", ".", "c", ":", "1", "0">>]
    ELSE IF a = 2
    THEN [function |-> <<"g">>, fileLine |-> <<"x", "/", ".", "/", "a", ".", "c", ":", "?">>]
    ELSE IF a = 3
    THEN [function |-> <<"h">>, fileLine |-> <<".", "/", "b", ".", "c", ":", "1", "2">>]
    ELSE [function |-> <<"?", "?">>, fileLine |-> <<"?", "?", ":", "?">>]

\* the address echoed as 0x%08x
EchoLine(a) == <<"0", "x">> \o PadZero(Hex(a), 8)

\* the address of a request line, read as hexadecimal with a 0x prefix
RequestAddress(line) ==
    ParseDigits(HexDigits, SubSeq(line, 3, Len(line))).value

\* the three reply lines for an address
Reply(a) == <<EchoLine(a), DebugInfo(a).function, DebugInfo(a).fileLine>>

\* the ways a subprocess can break the protocol on one request
FaultKinds == {"badAddress", "unrequested", "badFileLine", "cutAfterEcho", "cutAfterFunction"}

\* the lines the subprocess writes for a request when it breaks the
\* protocol in the given way
FaultyReply(a, kind) ==
    IF kind = "badAddress" THEN <<<<"?", "?">>, DebugInfo(a).function, DebugInfo(a).fileLine>>
    ELSE IF kind = "unrequested" THEN Reply(MaxAddrs)
    ELSE IF kind = "badFileLine" THEN <<EchoLine(a), DebugInfo(a).function, <<"a", ".", "c">>>>
    ELSE IF kind = "cutAfterEcho" THEN <<EchoLine(a)>>
    ELSE IF kind = "cutAfterFunction" THEN <<EchoLine(a), DebugInfo(a).function>>
    ELSE <<>>

\* the subprocess dies after these faults
ExitsAfter(kind) == kind \in {"cutAfterEcho", "cutAfterFunction"}

----------------------------------------------------------------------------
(* parseLineInfo: the statistics of one reply *)

EmptyStats ==
    [addresses |-> EmptyMap, lines |-> EmptyMap, functions |-> EmptyMap,
     files |-> EmptyMap, overall |-> 0]

ZeroLineStats == [smallestAddress |-> 0, count |-> 0]

\* lines 205-212 with the count of the line assigned instead of added
LineStatsAssigned(lines, lineDef, address, addressCount) ==
    LET old == Get(lines, lineDef, ZeroLineStats)
        smallest == IF lineDef \in DOMAIN lines
                    THEN MinU32(old.smallestAddress, address)
                    ELSE address
    IN  Put(lines, lineDef, [smallestAddress |-> smallest, count |-> addressCount])

\* lines 205-212 with the addresses of a line added up
LineStatsSummed(lines, lineDef, address, addressCount) ==
    LET old == Get(lines, lineDef, ZeroLineStats) IN
    Put(lines, lineDef, [smallestAddress |-> old.smallestAddress + address,
                         count |-> old.count + addressCount])

\* lines 205-212: the line's smallest address and its count
LineStats(lines, lineDef, address, addressCount) ==
    LET old == Get(lines, lineDef, ZeroLineStats)
        smallest == IF lineDef \in DOMAIN lines
                    THEN MinU32(old.smallestAddress, address)
                    ELSE address
    IN  Put(lines, lineDef, [smallestAddress |-> smallest, count |-> old.count + addressCount])

\* lines 185-218: the reply of one address added to the statistics; the
\* counters are uint32 and stay far below 2^32 in the model
Accumulate(st, address, addressCount, functionName, match) ==
    LET filename == PathPrefixRemove(match.filename)
        parsed == ParseUintBase10(match.lineText)
        lineNum == IF parsed.ok THEN parsed.value ELSE 0
        fileDef == filename
        functionDef == [name |-> functionName, file |-> fileDef]
        lineDef == [lineNum |-> lineNum, function |-> functionDef]
    IN  [files |-> Put(st.files, fileDef, Get(st.files, fileDef, 0) + addressCount),
         functions |-> Put(st.functions, functionDef, Get(st.functions, functionDef, 0) + addressCount),
         lines |-> LineStats(st.lines, lineDef, address, addressCount),
         addresses |-> Put(st.addresses, address, addressCount),
         overall |-> st.overall + addressCount]

----------------------------------------------------------------------------
(* translateAddressesToLineStats: the main flow writes the requests, the   *)
(* subprocess answers, the parseLineInfo goroutine reads the replies       *)

\* the maps handed to translateAddressesToLineStats: some addresses of the
\* pool, each seen once or MaxCount times
AddressMaps == UNION {[S -> {1, MaxCount}] : S \in SUBSET AddrPool}

ParserStart ==
    [label |-> "scanAddr", address |-> 0, addressCount |-> 0,
     functionName |-> <<>>, badAddress |-> FALSE]

\* nothing of the resolver has happened
ResolveIdle ==
    /\ addressCounts = EmptyMap
    /\ pending = {}
    /\ requests = <<>>
    /\ wr = "idle"
    /\ pipeIn = [buf |-> <<>>, cap |-> 0, closed |-> FALSE]
    /\ pipeOut = [buf |-> <<>>, cap |-> 0, closed |-> FALSE, readerGone |-> FALSE]
    /\ sym = [label |-> "idle", out |-> <<>>, exiting |-> FALSE]
    /\ par = [ParserStart EXCEPT !.label = "idle"]
    /\ stats = EmptyStats
    /\ fault = "none"

\* main has not come to its report
ReportIdle ==
    report = [label |-> "idle", topN |-> maxResults, out |-> <<>>]

\* nothing of the decoder pipeline is running
DecodeIdle ==
    /\ log = <<>>
    /\ frames = <<>>
    /\ gaps = <<>>
    /\ dec = [DecoderStart EXCEPT !.label = "idle"]
    /\ queue = <<>>
    /\ cap = 0
    /\ sent = <<>>
    /\ raw = FALSE
    /\ cons = ConsumerStart

----------------------------------------------------------------------------
(* parseProfileLog as a function of the log *)

InitDecode ==
    /\ \/ /\ log \in SeqsUpTo(Bytes, MaxLen)
          /\ frames = <<>>
          /\ gaps = <<>>
       \/ /\ frames \in SeqsUpTo(FrameAddrs, MaxFrames) \ {<<>>}
          /\ gaps \in [1..(Len(frames) - 1) -> SeqsUpTo(NoiseBytes, MaxNoise)]
          /\ log = BuildLog(frames, gaps, 1)
    /\ dec = DecoderStart
    /\ queue = <<>>
    /\ cap = 0
    /\ sent = <<>>
    /\ raw = FALSE
    /\ cons = ConsumerStart
    /\ ResolveIdle
    /\ ReportIdle

\* parseProfileLog run to completion on the log
Decode ==
    /\ dec.label = "loop"
    /\ dec.pos = 0
    /\ sent' = ParseProfileLog(log)
    /\ dec' = RunDecoderState(log, DecoderStart)
    /\ UNCHANGED <<report, resolveVars, log, frames, gaps, queue, cap, raw, cons>>

NextDecode == Decode

SpecDecode == InitDecode /\ [][NextDecode]_vars

----------------------------------------------------------------------------
(* The pipeline of main: parseProfileLog as a goroutine, parsedDataChan,   *)
(* and groupAddresses or printRawAddresses receiving from it               *)

\* the logs of the pipeline are built from these pieces: two frames, a
\* noise byte, a lone marker (the noise byte is below 128, so that every
\* address read stays below 2^31)
PipeChunks == {Frame(<<1, 0, 0, 0>>), Frame(<<2, 0, 0, 0>>), <<127>>, <<Marker>>}

RECURSIVE Flatten(_)
Flatten(ss) ==
    IF ss = <<>> THEN <<>> ELSE Head(ss) \o Flatten(Tail(ss))

Init ==
    /\ \E chunks \in SeqsUpTo(PipeChunks, MaxChunks) : log = Flatten(chunks)
    /\ frames = <<>>
    /\ gaps = <<>>
    /\ dec = DecoderStart
    /\ queue = <<>>
    /\ cap \in 1..MaxChanCap
    /\ sent = <<>>
    /\ raw \in BOOLEAN
    /\ cons = [ConsumerStart EXCEPT !.label = "recv"]
    /\ ResolveIdle
    /\ ReportIdle

\* a send on the buffered channel: blocks while the buffer is full
CanSend == Len(queue) < cap

\* lines 70-98 without a send: one loop iteration up to the next ReadByte,
\* the send of a finished frame, or the end of the loop
DecoderRead ==
    /\ dec.label = "loop"
    /\ dec' = LoopHead(log, dec)
    /\ UNCHANGED <<report, resolveVars, log, frames, gaps, queue, cap, sent, raw, cons>>

\* line 76 and the rest of the iteration: output <- lastEntry
DecoderEmit ==
    /\ dec.label = "emit"
    /\ CanSend
    /\ queue' = Append(queue, dec.lastEntry)
    /\ sent' = Append(sent, dec.lastEntry)
    /\ dec' = FindFrame(log, dec)
    /\ UNCHANGED <<report, resolveVars, log, frames, gaps, cap, raw, cons>>

\* line 102: output <- nil
DecoderSignal ==
    /\ dec.label = "signal"
    /\ CanSend
    /\ queue' = Append(queue, Nil)
    /\ sent' = Append(sent, Nil)
    /\ dec' = [dec EXCEPT !.label = "done"]
    /\ UNCHANGED <<report, resolveVars, log, frames, gaps, cap, raw, cons>>

\* addresses[entry.pc]++ with the count kept at one
CountOnce(addresses, pc) ==
    IF pc \in DOMAIN addresses
    THEN addresses
    ELSE [a \in (DOMAIN addresses) \cup {pc} |-> IF a = pc THEN 1 ELSE addresses[a]]

\* addresses[entry.pc]++ : a missing key counts from zero
Increment(addresses, pc) ==
    [a \in (DOMAIN addresses) \cup {pc} |->
        IF a = pc
        THEN (IF pc \in DOMAIN addresses THEN addresses[pc] ELSE 0) + 1
        ELSE addresses[a]]

\* one pass of the loop of groupAddresses on a received entry
GroupEntry(c, entry) ==
    IF entry = Nil
    THEN [c EXCEPT !.label = "returned"]
    ELSE [c EXCEPT !.addresses = Increment(c.addresses, entry[1]),
                   !.totalObservations = c.totalObservations + 1]

\* printRawAddresses with the newest address put first
PrintEntryFirst(c, entry) ==
    IF entry = Nil
    THEN [c EXCEPT !.label = "returned"]
    ELSE [c EXCEPT !.printed = <<entry[1]>> \o c.printed]

\* one pass of the loop of printRawAddresses on a received entry
PrintEntry(c, entry) ==
    IF entry = Nil
    THEN [c EXCEPT !.label = "returned"]
    ELSE [c EXCEPT !.printed = Append(c.printed, entry[1])]

\* groupAddresses receives the next entry
GroupAddresses ==
    /\ ~raw
    /\ cons.label = "recv"
    /\ queue # <<>>
    /\ queue' = Tail(queue)
    /\ cons' = GroupEntry(cons, Head(queue))
    /\ UNCHANGED <<report, resolveVars, log, frames, gaps, dec, cap, sent, raw>>

\* printRawAddresses receives the next entry
PrintRawAddresses ==
    /\ raw
    /\ cons.label = "recv"
    /\ queue # <<>>
    /\ queue' = Tail(queue)
    /\ cons' = PrintEntry(cons, Head(queue))
    /\ UNCHANGED <<report, resolveVars, log, frames, gaps, dec, cap, sent, raw>>

\* lines 422-424: groupAddresses has returned its map and main calls
\* translateAddressesToLineStats with it; after printRawAddresses main ends
CallTranslate ==
    /\ ~raw
    /\ cons.label = "returned"
    /\ wr = "idle"
    /\ wr' = "start"
    /\ addressCounts' = cons.addresses
    /\ pending' = DOMAIN cons.addresses
    /\ UNCHANGED <<report, decodeVars, requests, pipeIn, pipeOut, sym, par, stats, fault>>

Decoder == DecoderRead \/ DecoderEmit \/ DecoderSignal

Consumer == GroupAddresses \/ PrintRawAddresses

Next == Decoder \/ Consumer \/ CallTranslate

Spec == Init /\ [][Next]_vars

\* both goroutines are scheduled whenever they can run
FairSpec == Spec /\ WF_vars(Decoder) /\ WF_vars(Consumer)

----------------------------------------------------------------------------
(* The symbol resolver, interleaved *)

\* lines 225-247: the statistics are empty, the subprocess runs, the
\* complete channel is made and parseLineInfo is started
InitResolve ==
    /\ DecodeIdle
    /\ addressCounts \in AddressMaps
    /\ pending = DOMAIN addressCounts
    /\ requests = <<>>
    /\ wr = "write"
    /\ \E c \in 1..MaxPipeCap : pipeIn = [buf |-> <<>>, cap |-> c, closed |-> FALSE]
    /\ \E c \in 1..MaxPipeCap :
          pipeOut = [buf |-> <<>>, cap |-> c, closed |-> FALSE, readerGone |-> FALSE]
    /\ sym = [label |-> "read", out |-> <<>>, exiting |-> FALSE]
    /\ par = ParserStart
    /\ stats = EmptyStats
    /\ fault = "none"
    /\ ReportIdle

\* an unrecovered panic of a goroutine ends the whole program
Panicked == par.label = "panic"

\* parseLineInfo is started after the loop that writes the requests
ParserStartedAfterRequests == wr # "write"

\* line 247: go parseLineInfo(...) comes before the first request is written
ParserStarted == TRUE

\* io.WriteString on stdin returns: there is room in the pipe, or the
\* subprocess is gone and the write fails
CanWriteRequest ==
    /\ wr = "write"
    /\ ~Panicked
    /\ pending # {}
    /\ (sym.label = "exited" \/ Len(pipeIn.buf) < pipeIn.cap)

\* lines 250-252: io.WriteString(stdinPipe, "0x%x\n") for the next address of
\* the range over the map (in any order); the error of a failed write is
\* dropped
WriteRequest ==
    /\ CanWriteRequest
    /\ \E a \in pending :
          /\ pending' = pending \ {a}
          /\ requests' = Append(requests, a)
          /\ pipeIn' = IF sym.label = "exited"
                       THEN pipeIn
                       ELSE [pipeIn EXCEPT !.buf = Append(@, FormatRequest(a))]
    /\ UNCHANGED <<report, decodeVars, addressCounts, wr, pipeOut, sym, par, stats, fault>>

CanCloseStdin ==
    /\ wr = "write"
    /\ ~Panicked
    /\ pending = {}

\* line 253: stdinPipe.Close() after the last request
CloseStdin ==
    /\ CanCloseStdin
    /\ wr' = "wait"
    /\ pipeIn' = [pipeIn EXCEPT !.closed = TRUE]
    /\ UNCHANGED <<report, decodeVars, addressCounts, pending, requests, pipeOut, sym, par, stats, fault>>

\* the main flow goes on without the signal of parseLineInfo
CanCompleteUnsignalled ==
    wr = "wait"

\* the send on the unbuffered complete channel meets its receive
CanComplete ==
    /\ wr = "wait"
    /\ par.label = "signal"

\* lines 221 and 256-258: done <- true meets <-complete, then the main flow
\* closes its end of stdout
Complete ==
    /\ CanComplete
    /\ wr' = "reap"
    /\ par' = [par EXCEPT !.label = "exited"]
    /\ pipeOut' = [pipeOut EXCEPT !.readerGone = TRUE]
    /\ UNCHANGED <<report, decodeVars, addressCounts, pending, requests, pipeIn, sym, stats, fault>>

CanCommandWait ==
    /\ wr = "reap"
    /\ sym.label = "exited"

\* lines 260-262: command.Wait() returns when the subprocess has exited
CommandWait ==
    /\ CanCommandWait
    /\ wr' = "returned"
    /\ UNCHANGED <<report, decodeVars, addressCounts, pending, requests, pipeIn, pipeOut, sym, par, stats, fault>>

\* the subprocess after it was given lines to write
SymAfter(out, exiting) ==
    [label |-> IF out # <<>> THEN "write" ELSE IF exiting THEN "exited" ELSE "read",
     out |-> out, exiting |-> exiting]

\* a request is waiting on stdin
CanSymTake ==
    /\ sym.label = "read"
    /\ pipeIn.buf # <<>>

\* the subprocess takes one request from stdin and prepares its answer
SymTake(kind) ==
    /\ CanSymTake
    /\ LET a == RequestAddress(Head(pipeIn.buf))
           lines == IF kind = "none" THEN Reply(a) ELSE FaultyReply(a, kind)
           after == SymAfter(lines, kind # "none" /\ ExitsAfter(kind))
       IN  /\ sym' = after
           /\ pipeOut' = [pipeOut EXCEPT !.closed = (after.label = "exited")]
    /\ pipeIn' = [pipeIn EXCEPT !.buf = Tail(@)]
    /\ fault' = IF kind = "none" THEN fault ELSE kind
    /\ UNCHANGED <<report, decodeVars, addressCounts, pending, requests, wr, par, stats>>

\* a request answered as the protocol says
SymServe == SymTake("none")

\* a request answered in breach of the protocol (once per run)
SymFault ==
    /\ fault = "none"
    /\ \E kind \in FaultKinds : SymTake(kind)

\* the subprocess dies while waiting for a request (or never got going: an
\* executable it cannot read)
SymDie ==
    /\ fault = "none"
    /\ sym.label = "read"
    /\ sym' = [sym EXCEPT !.label = "exited"]
    /\ pipeOut' = [pipeOut EXCEPT !.closed = TRUE]
    /\ fault' = "exit"
    /\ UNCHANGED <<report, decodeVars, addressCounts, pending, requests, wr, pipeIn, par, stats>>

\* a write on stdout returns: there is room in the pipe, or the reader is
\* gone and the write kills the subprocess
CanSymWrite ==
    /\ sym.label = "write"
    /\ (pipeOut.readerGone \/ Len(pipeOut.buf) < pipeOut.cap)

\* the subprocess writes its next line to stdout
SymWrite ==
    /\ CanSymWrite
    /\ LET after == IF pipeOut.readerGone
                    THEN [sym EXCEPT !.label = "exited"]
                    ELSE SymAfter(Tail(sym.out), sym.exiting)
       IN  /\ sym' = after
           /\ pipeOut' = [pipeOut EXCEPT
                 !.buf = IF pipeOut.readerGone THEN @ ELSE Append(@, Head(sym.out)),
                 !.closed = (after.label = "exited")]
    /\ UNCHANGED <<report, decodeVars, addressCounts, pending, requests, wr, pipeIn, par, stats, fault>>

CanSymEof ==
    /\ sym.label = "read"
    /\ pipeIn.buf = <<>>
    /\ pipeIn.closed

\* the subprocess reads the end of stdin and exits
SymEof ==
    /\ CanSymEof
    /\ sym' = [sym EXCEPT !.label = "exited"]
    /\ pipeOut' = [pipeOut EXCEPT !.closed = TRUE]
    /\ UNCHANGED <<report, decodeVars, addressCounts, pending, requests, wr, pipeIn, par, stats, fault>>

\* scanner.Scan() returns: a line is there, or the output has ended
ScanReturns == pipeOut.buf # <<>> \/ pipeOut.closed

\* scanner.Text() after the Scan: the line, or "" at the end of the output
ScannedText == IF pipeOut.buf # <<>> THEN Head(pipeOut.buf) ELSE <<>>

\* the pipe after the Scan
AfterScan == IF pipeOut.buf # <<>> THEN [pipeOut EXCEPT !.buf = Tail(@)] ELSE pipeOut

\* parseLineInfo is running and the Scan it is in returns
CanScan(label) ==
    /\ ParserStarted
    /\ par.label = label
    /\ ScanReturns

\* lines 151-171: the address line; the loop ends at the end of the output
\* and on a line that is no address
ScanAddress ==
    /\ CanScan("scanAddr")
    /\ pipeOut' = AfterScan
    /\ IF pipeOut.buf = <<>>
       THEN par' = [par EXCEPT !.label = "signal"]
       ELSE LET r == ParseUintBase0(ScannedText) IN
            IF ~r.ok
            THEN par' = [par EXCEPT !.label = "signal", !.badAddress = (Len(ScannedText) > 0)]
            ELSE par' = [par EXCEPT !.label = "scanFunc",
                                    !.address = r.value,
                                    !.addressCount = Get(addressCounts, r.value, 0)]
    /\ UNCHANGED <<report, decodeVars, addressCounts, pending, requests, wr, pipeIn, sym, stats, fault>>

\* lines 173-174: the function name
ScanFunction ==
    /\ CanScan("scanFunc")
    /\ pipeOut' = AfterScan
    /\ par' = [par EXCEPT !.label = "scanFile", !.functionName = ScannedText]
    /\ UNCHANGED <<report, decodeVars, addressCounts, pending, requests, wr, pipeIn, sym, stats, fault>>

\* lines 176-218: the filename:line line and the statistics of the reply; a
\* line that does not match panics
ScanFileLine ==
    /\ CanScan("scanFile")
    /\ pipeOut' = AfterScan
    /\ LET match == FilenameLineSplit(ScannedText) IN
       IF ~match.ok
       THEN /\ par' = [par EXCEPT !.label = "panic"]
            /\ UNCHANGED stats
       ELSE /\ par' = [par EXCEPT !.label = "scanAddr"]
            /\ stats' = Accumulate(stats, par.address, par.addressCount, par.functionName, match)
    /\ UNCHANGED <<report, decodeVars, addressCounts, pending, requests, wr, pipeIn, sym, fault>>

Writer == WriteRequest \/ CloseStdin \/ Complete \/ CommandWait

Symbolizer == SymServe \/ SymWrite \/ SymEof

Parser == ScanAddress \/ ScanFunction \/ ScanFileLine

\* the steps of a run in which the subprocess keeps to the protocol
Progress == Writer \/ Symbolizer \/ Parser

NextResolve == Progress \/ SymFault \/ SymDie

SpecResolve == InitResolve /\ [][NextResolve]_vars

\* the resolver with a subprocess that keeps to the protocol
ProtocolSpec == InitResolve /\ [][Progress]_vars

\* the main flow cannot take a step
WriterBlocked ==
    ~(CanWriteRequest \/ CanCloseStdin \/ CanComplete \/ CanCommandWait)

\* the subprocess cannot take a step
SymbolizerBlocked ==
    ~(CanSymTake \/ CanSymWrite \/ CanSymEof)

\* parseLineInfo cannot take a step
ParserBlocked ==
    ~(CanScan("scanAddr") \/ CanScan("scanFunc") \/ CanScan("scanFile") \/ CanComplete)

----------------------------------------------------------------------------
(* main after groupAddresses: translateAddressesToLineStats, then the      *)
(* report                                                                  *)

\* line 424: translateAddressesToLineStats is called with the map; the
\* subprocess is not started yet
InitMain ==
    /\ DecodeIdle
    /\ addressCounts \in AddressMaps
    /\ pending = DOMAIN addressCounts
    /\ requests = <<>>
    /\ wr = "start"
    /\ pipeIn = [buf |-> <<>>, cap |-> 0, closed |-> FALSE]
    /\ pipeOut = [buf |-> <<>>, cap |-> 0, closed |-> FALSE, readerGone |-> FALSE]
    /\ sym = [label |-> "idle", out |-> <<>>, exiting |-> FALSE]
    /\ par = [ParserStart EXCEPT !.label = "idle"]
    /\ stats = EmptyStats
    /\ fault = "none"
    /\ ReportIdle

\* lines 238-247: command.Start() succeeds: the subprocess runs on its two
\* pipes, the complete channel is made and parseLineInfo is started
Start ==
    /\ wr = "start"
    /\ wr' = "write"
    /\ \E c \in 1..MaxPipeCap : pipeIn' = [pipeIn EXCEPT !.cap = c]
    /\ \E c \in 1..MaxPipeCap : pipeOut' = [pipeOut EXCEPT !.cap = c]
    /\ sym' = [sym EXCEPT !.label = "read"]
    /\ par' = ParserStart
    /\ UNCHANGED <<report, decodeVars, addressCounts, pending, requests, stats, fault>>

\* lines 238-242: command.Start() fails: the error is printed and the empty
\* statistics are returned
StartFails ==
    /\ wr = "start"
    /\ wr' = "returned"
    /\ fault' = "launch"
    /\ report' = [report EXCEPT !.out = Append(@, [kind |-> "error", n |-> 0, rows |-> <<>>])]
    /\ UNCHANGED <<decodeVars, addressCounts, pending, requests, pipeIn, pipeOut, sym, par, stats>>

\* half of a 32-bit word
Limb == 256 * 256

\* count*100 of uint32 operands: the low 32 bits of the product, as two
\* 16-bit halves
Mul100U32(count) ==
    LET lo == (count % Limb) * 100
        hi == (count \div Limb) * 100 + (lo \div Limb)
    IN  [hi |-> hi % Limb, lo |-> lo % Limb]

\* float32(count*100)/float32(stats.overall.count): the two operands of the
\* division
Percent(count, overall) ==
    [numerator |-> Mul100U32(count), denominator |-> overall]

\* the three Less with the comparison the other way round
LessAscending(x, y) == x.stats.count < y.stats.count

\* Less of the three arrays: the larger count comes first
Less(x, y) == x.stats.count > y.stats.count

\* Swap of the three arrays
Swap(x, i, j) == [x EXCEPT ![i] = x[j], ![j] = x[i]]

\* the element at j moves down while it is Less than the one before it
RECURSIVE SinkDown(_, _)
SinkDown(x, j) ==
    IF j > 1 /\ Less(x[j], x[j - 1]) THEN SinkDown(Swap(x, j, j - 1), j - 1) ELSE x

RECURSIVE InsertionSort(_, _)
InsertionSort(x, i) ==
    IF i > Len(x) THEN x ELSE InsertionSort(SinkDown(x, i), i + 1)

\* sort.Sort of a short array: an insertion sort through Less and Swap
Sort(x) == InsertionSort(x, 2)

\* the orders in which a range over a map with these keys can go
Orders(keys) ==
    {s \in [1..Cardinality(keys) -> keys] :
        \A i, j \in 1..Cardinality(keys) : s[i] = s[j] => i = j}

\* a map of counts as a map of EntityStatistics
EntityStats(m) == [k \in DOMAIN m |-> [count |-> m[k]]]

\* one printed entry: its definition, its statistics and its percentage
Row(pair, overall) ==
    [def |-> pair.def, stats |-> pair.stats, percent |-> Percent(pair.stats.count, overall)]

\* the body of printLineStats, printFunctionStats and printFileStats: the
\* map is copied into an array in the order of the range, the array is
\* sorted and its first topN entries are printed under the headline
Section(kind, topN, m, order, overall) ==
    LET array == [i \in 1..Len(order) |-> [def |-> order[i], stats |-> m[order[i]]]]
        sorted == Sort(array)
        n == IF Len(sorted) < topN THEN Len(sorted) ELSE topN
    IN  [kind |-> kind, n |-> topN, rows |-> [i \in 1..n |-> Row(sorted[i], overall)]]

\* main is back from translateAddressesToLineStats and stands before the
\* given part of the report
CanReport(label) ==
    /\ wr = "returned"
    /\ report.label = label

\* line 428: "%d samples in total"
PrintTotal ==
    /\ CanReport("idle")
    /\ report' = [report EXCEPT !.label = "lines",
                     !.out = Append(@, [kind |-> "total", n |-> stats.overall, rows |-> <<>>])]
    /\ UNCHANGED <<decodeVars, resolveVars>>

\* line 430: printLineStats(stats, maxResults)
PrintLineStats ==
    /\ CanReport("lines")
    /\ \E order \in Orders(DOMAIN stats.lines) :
          report' = [report EXCEPT !.label = "functions",
                        !.out = Append(@, Section("lines", report.topN, stats.lines,
                                                  order, stats.overall))]
    /\ UNCHANGED <<decodeVars, resolveVars>>

\* line 431: printFunctionStats(stats, maxResults)
PrintFunctionStats ==
    /\ CanReport("functions")
    /\ \E order \in Orders(DOMAIN stats.functions) :
          report' = [report EXCEPT !.label = "files",
                        !.out = Append(@, Section("functions", report.topN,
                                                  EntityStats(stats.functions),
                                                  order, stats.overall))]
    /\ UNCHANGED <<decodeVars, resolveVars>>

\* line 432: printFileStats(stats, maxResults)
PrintFileStats ==
    /\ CanReport("files")
    /\ \E order \in Orders(DOMAIN stats.files) :
          report' = [report EXCEPT !.label = "done",
                        !.out = Append(@, Section("files", report.topN,
                                                  EntityStats(stats.files),
                                                  order, stats.overall))]
    /\ UNCHANGED <<decodeVars, resolveVars>>

Report == PrintTotal \/ PrintLineStats \/ PrintFunctionStats \/ PrintFileStats

NextMain == Start \/ StartFails \/ NextResolve \/ Report

SpecMain == InitMain /\ [][NextMain]_vars

\* main with a subprocess that, once started, keeps to the protocol
NextProtocolMain == Start \/ StartFails \/ Progress \/ Report

ProtocolMain == InitMain /\ [][NextProtocolMain]_vars

----------------------------------------------------------------------------
(* The report on the statistics of a finished resolution *)

\* the smallest count whose hundredfold is beyond 32 bits: 4294967295 / 100,
\* which is 2147483647 / 50, and one more
BigCount == 2147483647 \div 50 + 1

\* the addresses and the counts of the maps that are reported on
ReportAddrs == 0..MaxAddrs

ReportCounts == {1, MaxCount, BigCount}

ReportMaps == UNION {[S -> ReportCounts] : S \in SUBSET ReportAddrs}

\* lines 155-218 on the three lines of the reply for address a
ReplyStats(st, m, a) ==
    LET address == ParseUintBase0(Reply(a)[1]).value IN
    Accumulate(st, address, Get(m, address, 0), Reply(a)[2], FilenameLineSplit(Reply(a)[3]))

\* the statistics after the replies for the given addresses of m, taken in
\* ascending order
RECURSIVE ResolvedStats(_, _, _)
ResolvedStats(st, m, todo) ==
    IF todo = {} THEN st
    ELSE LET a == CHOOSE x \in todo : \A y \in todo : x <= y IN
         ResolvedStats(ReplyStats(st, m, a), m, todo \ {a})

\* translateAddressesToLineStats has returned the statistics of a map whose
\* addresses were all answered, and main is about to print; topN is
\* maxResults or a smaller number
InitReport ==
    /\ DecodeIdle
    /\ addressCounts \in ReportMaps
    /\ pending = {}
    /\ requests = <<>>
    /\ wr = "returned"
    /\ pipeIn = [buf |-> <<>>, cap |-> 0, closed |-> TRUE]
    /\ pipeOut = [buf |-> <<>>, cap |-> 0, closed |-> TRUE, readerGone |-> TRUE]
    /\ sym = [label |-> "exited", out |-> <<>>, exiting |-> FALSE]
    /\ par = [ParserStart EXCEPT !.label = "exited"]
    /\ stats = ResolvedStats(EmptyStats, addressCounts, DOMAIN addressCounts)
    /\ fault = "none"
    /\ \E n \in (1..MaxTopN) \cup {maxResults} :
          report = [label |-> "idle", topN |-> n, out |-> <<>>]

NextReport == Report

SpecReport == InitReport /\ [][NextReport]_vars

----------------------------------------------------------------------------
(* The frame format, stated on the byte stream alone *)

\* the records among the values sent so far
Records == SelectSeq(sent, LAMBDA e : e # Nil)

DecodeDone == dec.label = "done"

\* the little-endian value of the four bytes behind the marker at index i
AddressAt(s, i) ==
    s[i + 1] + s[i + 2] * 256 + s[i + 3] * 256 * 256 + s[i + 4] * 256 * 256 * 256

\* the stream is frames and nothing else: a marker at every fifth byte
OnlyFrames(s) ==
    /\ Len(s) % 5 = 0
    /\ \A k \in 0..((Len(s) \div 5) - 1) : s[5 * k + 1] = Marker

\* index of the first marker at or after index p, 0 when there is none
NextMarker(s, p) ==
    LET at == {i \in p..Len(s) : s[i] = Marker} IN
    IF at = {} THEN 0 ELSE CHOOSE i \in at : \A j \in at : i <= j

\* the markers that start a frame with all four address bytes: the first
\* marker of the stream, then the first marker behind each frame
RECURSIVE FrameStarts(_, _)
FrameStarts(s, p) ==
    LET i == NextMarker(s, p) IN
    IF i = 0 \/ i + 4 > Len(s) THEN <<>>
    ELSE <<i>> \o FrameStarts(s, i + 5)

\* the marker that starts a frame cut short by the end of the stream, 0
\* when there is none
RECURSIVE TruncatedMarker(_, _)
TruncatedMarker(s, p) ==
    LET i == NextMarker(s, p) IN
    IF i = 0 THEN 0
    ELSE IF i + 4 > Len(s) THEN i
    ELSE TruncatedMarker(s, i + 5)

\* the byte behind the frame at i is the end of the stream or a marker
Terminated(s, i) ==
    i + 5 > Len(s) \/ s[i + 5] = Marker

\* the records of the frames of s that are terminated, in stream order
TerminatedRecords(s) ==
    LET starts == SelectSeq(FrameStarts(s, 1), LAMBDA i : Terminated(s, i)) IN
    [k \in 1..Len(starts) |-> LogEntry(AddressAt(s, starts[k]))]

\* C2: a stream of well-formed frames only decodes to one record per frame,
\* in stream order, each the little-endian value of its frame's four bytes
\* (address bytes equal to the marker included).
C2_OneRecordPerFrame ==
    (DecodeDone /\ OnlyFrames(log)) =>
        /\ Len(Records) = Len(log) \div 5
        /\ \A k \in 1..Len(Records) :
              Records[k] = LogEntry(AddressAt(log, 5 * (k - 1) + 1))

C2_Witness ==
    /\ DecodeDone
    /\ OnlyFrames(log)
    /\ Len(log) = 10
    /\ log[3] = Marker
    /\ log[7] = Marker
    /\ Len(Records) = 2

\* C3: over every byte stream the decoded records are exactly the frames
\* whose following byte is the end of the stream or a marker; a frame
\* followed by another byte is dropped and decoding resumes at the next
\* marker of the stream.
C3_TerminationCheck ==
    DecodeDone => Records = TerminatedRecords(log)

\* the scenario 3E 01 00 00 00 FF 3E 02 00 00 00: only address 2 is decoded
C3_Witness ==
    /\ DecodeDone
    /\ log = <<Marker, 1, 0, 0, 0, 255, Marker, 2, 0, 0, 0>>
    /\ Records = <<LogEntry(2)>>

\* the log was built from frames with noise in the gaps between them
Built == frames # <<>>

\* the built log without its noise
CleanLog == BuildLog(frames, [i \in 1..(Len(frames) - 1) |-> <<>>], 1)

\* the frames of the built log that no inserted byte follows
FollowedByNoise(i) == i < Len(frames) /\ gaps[i] # <<>>

KeptFrames ==
    LET idx == SelectSeq([i \in 1..Len(frames) |-> i], LAMBDA i : ~FollowedByNoise(i)) IN
    [k \in 1..Len(idx) |-> LogEntry(AddressAt(Frame(frames[idx[k]]), 1))]

\* C4 as stated: noise inserted between well-formed frames leaves the
\* decoded records as they are without the noise.
C4_NoiseInvariance ==
    (DecodeDone /\ Built) =>
        Records = SelectSeq(ParseProfileLog(CleanLog), LAMBDA e : e # Nil)

\* C4 amended: noise inserted between well-formed frames removes the record
\* of every frame that an inserted byte follows, and nothing else: the
\* decoded records are those of the other frames, in stream order.
C4_NoiseDropsPrecedingFrame ==
    (DecodeDone /\ Built) => Records = KeptFrames

C4_Witness ==
    /\ DecodeDone
    /\ Built
    /\ Len(frames) = 3
    /\ gaps[1] # <<>>
    /\ gaps[2] = <<>>
    /\ Len(Records) = 2

\* C5: a marker with fewer than four bytes behind it at the end of the
\* stream yields no record and ends the decoding; the records are those of
\* the stream before that marker.
C5_Truncation ==
    LET i == TruncatedMarker(log, 1) IN
    (DecodeDone /\ i # 0) =>
        /\ Records = TerminatedRecords(SubSeq(log, 1, i - 1))
        /\ dec.pos = Len(log)

C5_Witness ==
    /\ DecodeDone
    /\ Len(log) = 8
    /\ OnlyFrames(SubSeq(log, 1, 5))
    /\ TruncatedMarker(log, 1) = 6
    /\ Len(Records) = 1

----------------------------------------------------------------------------
(* The channel protocol between the decoder and its consumer *)

\* nil is sent at most once, as the last value, and ends the decoder
EndSignalLast ==
    /\ \A i \in 1..Len(sent) : sent[i] = Nil => (i = Len(sent) /\ dec.label = "done")
    /\ dec.label = "done" => (sent # <<>> /\ sent[Len(sent)] = Nil)

\* both sides are through and nothing is left in the channel
PipelineFinished ==
    /\ dec.label = "done"
    /\ cons.label = "returned"
    /\ queue = <<>>

\* C6: on every stream the decoder sends exactly one end signal, after all
\* records, and for every channel capacity and interleaving the decoder ends
\* (never blocked on a send) and the consumer returns.
C6_EndSignalAndTermination ==
    /\ [](EndSignalLast)
    /\ <>[](PipelineFinished)

C6_Witness ==
    /\ PipelineFinished
    /\ cap = 1
    /\ Len(sent) = 4
    /\ Len(log) > 15

\* how often pc occurs among the records
Occurrences(pc) ==
    Cardinality({i \in 1..Len(Records) : Records[i] = LogEntry(pc)})

RECURSIVE SumOver(_, _)
SumOver(f, keys) ==
    IF keys = {} THEN 0
    ELSE LET k == CHOOSE x \in keys : TRUE IN f[k] + SumOver(f, keys \ {k})

\* the sum of the values of a map
SumValues(f) == SumOver(f, DOMAIN f)

\* C7: groupAddresses returns only once the end signal was received, and the
\* map then holds for each address the number of records with that pc; the
\* values add up to the number of valid frames of the log.
C7_GroupAddressesCounts ==
    (~raw /\ cons.label = "returned") =>
        /\ dec.label = "done"
        /\ queue = <<>>
        /\ sent[Len(sent)] = Nil
        /\ DOMAIN cons.addresses = {Records[i][1] : i \in 1..Len(Records)}
        /\ \A a \in DOMAIN cons.addresses : cons.addresses[a] = Occurrences(a)
        /\ SumValues(cons.addresses) = Len(TerminatedRecords(log))

C7_Witness ==
    /\ ~raw
    /\ cons.label = "returned"
    /\ DOMAIN cons.addresses = {1, 2}
    /\ cons.addresses[1] = 2
    /\ cons.addresses[2] = 1

----------------------------------------------------------------------------
(* The symbol resolver's contracts *)

Returned == wr = "returned"

\* what is still to be done before the return: the writes, the close, the
\* signal and the wait of the main flow; the take and the three lines of
\* every request, and the exit of the subprocess; the scans of parseLineInfo
StepsLeft ==
    LET unread == Cardinality(pending) + Len(pipeIn.buf)
        unwritten == 3 * unread + Len(sym.out)
        unscanned == unwritten + Len(pipeOut.buf)
    IN  Cardinality(pending)
        + (IF wr = "write" THEN 3 ELSE IF wr = "wait" THEN 2 ELSE IF wr = "reap" THEN 1 ELSE 0)
        + unread + unwritten + (IF sym.label = "exited" THEN 0 ELSE 1)
        + unscanned + (IF par.label \in {"signal", "exited"} THEN 0 ELSE 1)

\* C1: with a subprocess that keeps to the protocol no reachable state has
\* the request writer, the subprocess and the reply consumer all blocked
\* before translateAddressesToLineStats has returned, for every number of
\* addresses and every pipe capacity; every step brings the return nearer,
\* and at the return all requests are written, stdin is closed and the
\* consumer's signal was received.
C1_DeadlockFree ==
    /\ [](~Returned => ~(WriterBlocked /\ SymbolizerBlocked /\ ParserBlocked))
    /\ [](Returned =>
            /\ pending = {}
            /\ Len(requests) = Cardinality(DOMAIN addressCounts)
            /\ pipeIn.closed
            /\ par.label = "exited")
    /\ [][StepsLeft' < StepsLeft]_vars

C1_Witness ==
    /\ Returned
    /\ fault = "none"
    /\ Cardinality(DOMAIN addressCounts) = MaxAddrs
    /\ pipeIn.cap = 1
    /\ pipeOut.cap = 1

\* the counts of the lines
LineCounts == [k \in DOMAIN stats.lines |-> stats.lines[k].count]

\* C8: in every state of the resolution, so after every reply and at the
\* end, the per-file counts, the per-function counts and the per-line counts
\* each add up to the overall count.
C8_Conservation ==
    /\ SumValues(stats.files) = stats.overall
    /\ SumValues(stats.functions) = stats.overall
    /\ SumValues(LineCounts) = stats.overall

C8_Witness ==
    /\ Returned
    /\ fault = "none"
    /\ DOMAIN addressCounts = AddrPool
    /\ Cardinality(DOMAIN stats.lines) = 2
    /\ Cardinality(DOMAIN stats.files) = 1
    /\ stats.overall = SumValues(addressCounts)
    /\ stats.overall > MaxAddrs

\* C9 as stated: every address of the map is written exactly once, and when
\* the resolution ends without a fatal error every address is in the address
\* mapping with its count and the overall total is the sum of the map; a
\* reply that never arrived is a fatal error, not a skipped address.
C9_ExactlyOnceNoSilentDrop ==
    /\ \A i, j \in 1..Len(requests) : requests[i] = requests[j] => i = j
    /\ \A i \in 1..Len(requests) : requests[i] \in DOMAIN addressCounts
    /\ Returned =>
          /\ {requests[i] : i \in 1..Len(requests)} = DOMAIN addressCounts
          /\ \A a \in DOMAIN addressCounts :
                a \in DOMAIN stats.addresses /\ stats.addresses[a] = addressCounts[a]
          /\ stats.overall = SumValues(addressCounts)

\* C10 as stated: a reply that echoes an address never requested ends the
\* resolution; nothing is recorded for it.
C10_UnrequestedReplyIsFatal ==
    /\ par.label \in {"scanFunc", "scanFile"} => par.address \in DOMAIN addressCounts
    /\ DOMAIN stats.addresses \subseteq DOMAIN addressCounts

----------------------------------------------------------------------------
(* The report after the resolution *)

\* main has printed the given part of the report
Printed(kind) == \E i \in 1..Len(report.out) : report.out[i].kind = kind

\* C11 as stated: a reply whose address line is no 32-bit address ends the
\* resolution as a fatal error, and main prints nothing of the report, not
\* even one built from the replies processed before.
C11_BadAddressNoReport ==
    par.badAddress => ~(Printed("total") \/ Printed("lines") \/ Printed("functions") \/ Printed("files"))

\* C12 as stated: when the subprocess cannot be started the run ends after
\* the error message: neither the line with the total nor any of the three
\* sections is printed.
C12_LaunchFailureNoReport ==
    fault = "launch" =>
        \A i \in 1..Len(report.out) : report.out[i].kind = "error"

----------------------------------------------------------------------------
(* The third line of a reply *)

Digits == {"0", "1", "2", "3", "4", "5", "6", "7", "8", "9"}

DigitOf(ch) ==
    CASE ch = "0" -> 0 [] ch = "1" -> 1 [] ch = "2" -> 2 [] ch = "3" -> 3 [] ch = "4" -> 4
      [] ch = "5" -> 5 [] ch = "6" -> 6 [] ch = "7" -> 7 [] ch = "8" -> 8 [] ch = "9" -> 9

\* the number written by decimal digits
RECURSIVE Decimal(_)
Decimal(ds) ==
    IF ds = <<>> THEN 0
    ELSE 10 * Decimal(SubSeq(ds, 1, Len(ds) - 1)) + DigitOf(ds[Len(ds)])

\* the places of text where a path ends: a colon, not the first character,
\* followed to the end of the line by characters of chars, at least one
FormSplits(text, chars) ==
    {k \in 2..(Len(text) - 1) :
        /\ text[k] = ":"
        /\ \A i \in (k + 1)..Len(text) : text[i] \in chars}

\* the step read a third line and added the reply to the statistics as a
\* resolution to the given line number
ResolvedTo(lineNum) ==
    /\ par'.label = "scanAddr"
    /\ stats'.overall = stats.overall + par.addressCount
    /\ par.address \in DOMAIN stats'.addresses
    /\ \E def \in DOMAIN stats'.lines :
          /\ def.lineNum = lineNum
          /\ def.function.name = par.functionName
          /\ stats'.lines[def].count
                = Get(stats.lines, def, ZeroLineStats).count + par.addressCount
          /\ \A other \in DOMAIN stats'.lines \ {def} :
                other \in DOMAIN stats.lines /\ stats'.lines[other] = stats.lines[other]

\* C13: a third line <path>:<digits> resolves the reply to that line
\* number; a third line <path>:? resolves it to line number 0 like any
\* other reply, counts added; every other third line, the missing line of a
\* reply cut short included, is fatal: nothing is added to the statistics
\* then or later, and the resolution does not go on.
C13_ThirdLine ==
    [][/\ (par.label = "scanFile" /\ par'.label # "scanFile") =>
            LET text == ScannedText IN
            /\ \A k \in FormSplits(text, Digits) :
                  ResolvedTo(Decimal(SubSeq(text, k + 1, Len(text))))
            /\ FormSplits(text, {"?"}) # {} => ResolvedTo(0)
            /\ (FormSplits(text, Digits) = {} /\ FormSplits(text, {"?"}) = {}) =>
                  (par'.label = "panic" /\ stats' = stats)
       /\ par.label = "panic" =>
            (par'.label = "panic" /\ stats' = stats /\ wr' = wr /\ requests' = requests)
      ]_vars

\* a reply with a numbered line and one with an unknown line were added,
\* then a reply cut short before its third line was fatal
C13_Witness ==
    /\ par.label = "panic"
    /\ fault = "cutAfterFunction"
    /\ \E def \in DOMAIN stats.lines : def.lineNum = 10 /\ stats.lines[def].count >= 1
    /\ \E def \in DOMAIN stats.lines : def.lineNum = 0 /\ stats.lines[def].count >= 1
    /\ Cardinality(DOMAIN stats.addresses) = 2

----------------------------------------------------------------------------
(* The statistics as a function of the map *)

\* the line that the debug information gives for an address
LineOf(a) ==
    LET text == DebugInfo(a).fileLine
        k == CHOOSE i \in FormSplits(text, Digits) \cup FormSplits(text, {"?"}) : TRUE
        tail == SubSeq(text, k + 1, Len(text))
    IN  [lineNum |-> IF tail[1] = "?" THEN 0 ELSE Decimal(tail),
         function |-> [name |-> DebugInfo(a).function,
                       file |-> PathPrefixRemove(SubSeq(text, 1, k - 1))]]

\* the sum of the counts of the addresses of m that belong to the group
CountOf(m, group) == SumOver(m, {a \in DOMAIN m : group[a]})

\* the smallest address of a non-empty set
Smallest(as) == CHOOSE a \in as : \A b \in as : a <= b

\* the statistics the map m stands for: every address with its count, every
\* line, function and file with the counts of its addresses, every line with
\* the smallest of its addresses
ExpectedStats(m) ==
    LET A == DOMAIN m
        L == {LineOf(a) : a \in A}
        F == {l.function : l \in L}
        P == {f.file : f \in F}
    IN  [addresses |-> [a \in A |-> m[a]],
         lines |-> [l \in L |->
                      [smallestAddress |-> Smallest({a \in A : LineOf(a) = l}),
                       count |-> CountOf(m, [a \in A |-> LineOf(a) = l])]],
         functions |-> [f \in F |-> CountOf(m, [a \in A |-> LineOf(a).function = f])],
         files |-> [p \in P |-> CountOf(m, [a \in A |-> LineOf(a).function.file = p])],
         overall |-> SumValues(m)]

\* C14: whatever the order in which the replies arrive (they arrive in the
\* order of the requests, which is any order of the map), a resolution whose
\* replies all arrive ends with the same statistics: the four mappings, each
\* line's smallest address and the overall total depend on the map and on
\* the resolution of each address alone.
C14_OrderIndependence ==
    Returned => stats = ExpectedStats(addressCounts)

\* the replies came in an order that is neither ascending nor descending,
\* two of them for the same line
C14_Witness ==
    /\ Returned
    /\ requests = <<1, 2, 0>>
    /\ Cardinality(DOMAIN stats.lines) = 2
    /\ stats = ExpectedStats(addressCounts)

----------------------------------------------------------------------------
(* The order of the records on the channel *)

\* the addresses of the records among channel values
Pcs(es) ==
    LET rs == SelectSeq(es, LAMBDA e : e # Nil) IN [i \in 1..Len(rs) |-> rs[i][1]]

\* how often pc is among the addresses
CountIn(pcs, pc) == Cardinality({i \in 1..Len(pcs) : pcs[i] = pc})

\* C15: the channel never holds more than its capacity and hands the values
\* on in the order they were sent, none lost and none twice, in every
\* interleaving: what was received, followed by what is in the channel, is
\* what was sent.  In raw mode the addresses printed are those of the
\* decoded records in decode order, at the end one for every valid frame of
\* the log, and translateAddressesToLineStats is never called, so the
\* subprocess is never started; in analysis mode every record sent is
\* counted once.
C15_StreamOrder ==
    /\ Len(queue) <= cap
    /\ \E n \in 0..Len(sent) : queue = SubSeq(sent, n + 1, Len(sent))
    /\ raw =>
          /\ cons.printed \o Pcs(queue) = Pcs(sent)
          /\ cons.label = "returned" => cons.printed = Pcs(TerminatedRecords(log))
          /\ wr = "idle" /\ sym.label = "idle" /\ par.label = "idle"
    /\ ~raw =>
          /\ cons.printed = <<>>
          /\ cons.totalObservations + Len(Pcs(queue)) = Len(Pcs(sent))
          /\ \A pc \in {Pcs(sent)[i] : i \in 1..Len(Pcs(sent))} \cup DOMAIN cons.addresses :
                Get(cons.addresses, pc, 0) + CountIn(Pcs(queue), pc) = CountIn(Pcs(sent), pc)

\* raw output of three records through a channel of capacity one
C15_Witness ==
    /\ raw
    /\ cap = 1
    /\ cons.label = "returned"
    /\ cons.printed = <<2, 1, 2>>
    /\ Len(log) > 15

----------------------------------------------------------------------------
(* The sections of the report *)

\* the mapping a section is printed from
MappingOf(kind) ==
    IF kind = "lines" THEN stats.lines
    ELSE IF kind = "functions" THEN EntityStats(stats.functions)
    ELSE EntityStats(stats.files)

\* the rows of the section are entries of its mapping, each at most once,
\* as many as asked for or all of them, the larger count first, and no
\* entry left out has a larger count than one that is printed
Ranked(section) ==
    LET m == MappingOf(section.kind)
        rows == section.rows
        size == Cardinality(DOMAIN m)
    IN  /\ Len(rows) = IF section.n < size THEN section.n ELSE size
        /\ \A i \in 1..Len(rows) : rows[i].def \in DOMAIN m /\ rows[i].stats = m[rows[i].def]
        /\ \A i, j \in 1..Len(rows) : rows[i].def = rows[j].def => i = j
        /\ \A i \in 1..(Len(rows) - 1) : rows[i].stats.count >= rows[i + 1].stats.count
        /\ \A d \in DOMAIN m \ {rows[i].def : i \in 1..Len(rows)} :
              \A i \in 1..Len(rows) : m[d].count <= rows[i].stats.count

Sections == {"lines", "functions", "files"}

\* C16: each of the three sections lists entries of its mapping in
\* non-increasing order of count, min(N, number of entries) of them, and
\* every entry it lists has at least the count of every entry it leaves out.
C16_Ranking ==
    \A k \in 1..Len(report.out) :
        report.out[k].kind \in Sections => Ranked(report.out[k])

\* the top two of three lines and of three functions, with different
\* counts, and both files
C16_Witness ==
    /\ report.label = "done"
    /\ report.topN = 2
    /\ Cardinality(DOMAIN stats.lines) = 3
    /\ Len(report.out[2].rows) = 2
    /\ report.out[2].rows[1].stats.count > report.out[2].rows[2].stats.count
    /\ \E d \in DOMAIN stats.lines :
          /\ stats.lines[d].count < report.out[2].rows[2].stats.count
          /\ stats.lines[d].count > 1
    /\ Len(report.out[4].rows) = 2

----------------------------------------------------------------------------
(* The representative address of a line *)

\* the addresses whose replies were added to the statistics
Processed == DOMAIN stats.addresses

\* C17: after any replies, in whatever order they came, every line of the
\* statistics has as its smallest address the
\* minimum of the addresses whose replies resolved to it: address 0 where
\* that is the minimum, whichever address came first, and neither a sum nor
\* the last address seen.
C17_SmallestAddress ==
    \A l \in DOMAIN stats.lines :
        /\ {a \in Processed : LineOf(a) = l} # {}
        /\ stats.lines[l].smallestAddress = Smallest({a \in Processed : LineOf(a) = l})

\* address 1 was answered before address 0, which shares its line
C17_Witness ==
    /\ Len(requests) >= 2
    /\ requests[1] = 1
    /\ requests[2] = 0
    /\ {0, 1} \subseteq Processed
    /\ stats.lines[LineOf(1)].smallestAddress = 0
    /\ LineOf(0) = LineOf(1)

----------------------------------------------------------------------------
(* The handoff of the statistics from parseLineInfo to main *)

\* parseLineInfo is past its loop: at the send of its signal, or gone
ParserThrough == par.label \in {"signal", "exited"}

\* C18: only parseLineInfo writes the statistics, in its loop, while the
\* main flow is still writing requests or waiting for the signal; after it
\* has come to send its signal it writes no more; the main flow gets past
\* its receive only together with that send, and main reads the statistics
\* (for the report) only after translateAddressesToLineStats has returned,
\* when parseLineInfo is gone or was never started; from the receive on the
\* statistics never change.
C18_SafeHandoff ==
    [][/\ stats' # stats =>
            /\ par.label = "scanFile"
            /\ wr \in {"write", "wait"}
            /\ report' = report
       /\ ParserThrough => stats' = stats
       /\ (wr = "wait" /\ wr' # "wait") => (par.label = "signal" /\ par'.label = "exited")
       /\ report'.label # report.label =>
            /\ wr = "returned"
            /\ par.label \in {"exited", "idle"}
            /\ stats' = stats
       /\ wr \in {"reap", "returned"} => stats' = stats
      ]_vars

\* the whole report was printed from the statistics of three replies
C18_Witness ==
    /\ report.label = "done"
    /\ fault = "none"
    /\ par.label = "exited"
    /\ Cardinality(Processed) = MaxAddrs
    /\ Len(report.out) = 4
    /\ report.out[1].n = stats.overall

----------------------------------------------------------------------------
(* The draining of the subprocess's output *)

\* the request writer waits for room in a full stdin pipe while the
\* subprocess waits for room in a full stdout pipe that nobody reads
WriterStuckBehindSymbolizer ==
    /\ wr = "write"
    /\ pending # {}
    /\ ~Panicked
    /\ ~CanWriteRequest
    /\ sym.label = "write"
    /\ ~CanSymWrite
    /\ ParserThrough

\* C19 as stated: while the request writer still has requests to write,
\* parseLineInfo has not stopped reading unless the output is closed,
\* whatever the replies hold; so the writer is never stuck on a full stdin
\* pipe behind a subprocess stuck on a full stdout pipe that is not drained.
C19_ConsumerDrains ==
    /\ (ParserThrough /\ wr = "write" /\ pending # {}) => pipeOut.closed
    /\ ~WriterStuckBehindSymbolizer

----------------------------------------------------------------------------
(* The percentages of the report *)

\* a 32-bit number given by its halves, divided by 100
Div100(n) ==
    LET low == (n.hi % 100) * Limb + n.lo IN
    [quotient |-> (n.hi \div 100) * Limb + low \div 100, remainder |-> low % 100]

\* the numerator is the hundredfold of the count and the denominator is the
\* overall count; the percentage is not above 100 for a count that is not
\* above the overall count
ExactPercent(row) ==
    /\ Div100(row.percent.numerator) = [quotient |-> row.stats.count, remainder |-> 0]
    /\ row.percent.denominator = stats.overall
    /\ row.stats.count <= stats.overall =>
          Div100(row.percent.numerator).quotient <= stats.overall

\* C20 as stated: for every entry printed in any section, count*100 as
\* computed in 32 bits is the product itself, whatever count a 32-bit
\* counter holds, so the percentage is count * 100 / overall.
C20_PercentNoWrap ==
    \A k \in 1..Len(report.out) :
        \A i \in 1..Len(report.out[k].rows) : ExactPercent(report.out[k].rows[i])

====
